---- MODULE Spec2Model ----
(***************************************************************************)
(* The webseal bridge: a host thread holding a WebviewIpc handle, a window *)
(* thread running the tao event loop, and the two crossbeam channels       *)
(* between them (ToWindow: host -> window, ToLuau: window -> host).        *)
(*                                                                         *)
(* Text is modelled as a sequence of one-character strings, so that        *)
(* starts_with, replace, split and parse are computed as the code computes *)
(* them.  The event loop is modelled from the closure handed to            *)
(* event_loop.run: one invocation per native event, and the loop stops     *)
(* invoking the closure once an invocation returns with ControlFlow::Exit; *)
(* the closure, which owns the window's channel ends, is then dropped.     *)
(***************************************************************************)
EXTENDS Integers, Sequences, FiniteSets, TLC

\* ------------------------------------------------------------------ bounds
MaxCommands == 2
MaxNative == 1
MaxMessages == 2
ArgMaxCommands == 1
ArgMaxMessages == 1
InMaxCommands == 1
InMaxMessages == 1
HitMaxMessages == 1

\* ------------------------------------------------------------------- text
S_input == <<"i", "n", "p", "u", "t", "!">>
S_minimize == <<"m", "i", "n", "i", "m", "i", "z", "e">>
S_maximize == <<"m", "a", "x", "i", "m", "i", "z", "e">>
S_drag_window == <<"d", "r", "a", "g", "_", "w", "i", "n", "d", "o", "w">>
S_close == <<"c", "l", "o", "s", "e">>
S_mousedown == <<"m", "o", "u", "s", "e", "d", "o", "w", "n">>
S_mousemove == <<"m", "o", "u", "s", "e", "m", "o", "v", "e">>
S_REPLACETITLE == <<"!", "R", "E", "P", "L", "A", "C", "E", "T", "I", "T", "L", "E", "!">>
S_REPLACEBODY == <<"!", "R", "E", "P", "L", "A", "C", "E", "B", "O", "D", "Y", "!">>

\* The NUL byte, as one character.
NUL == "\\0"

\* str::starts_with
StartsWith(s, p) == Len(s) >= Len(p) /\ SubSeq(s, 1, Len(p)) = p

\* str::replace: every non-overlapping match, left to right.
RECURSIVE Replace(_, _, _)
Replace(s, from, to) ==
    IF s = <<>> THEN <<>>
    ELSE IF StartsWith(s, from)
         THEN to \o Replace(SubSeq(s, Len(from) + 1, Len(s)), from, to)
         ELSE <<Head(s)>> \o Replace(Tail(s), from, to)

\* str::split([':', ',']): the pieces between separators, empty pieces kept.
RECURSIVE SplitFrom(_, _, _)
SplitFrom(s, cur, out) ==
    IF s = <<>> THEN Append(out, cur)
    ELSE IF Head(s) \in {":", ","}
         THEN SplitFrom(Tail(s), <<>>, Append(out, cur))
         ELSE SplitFrom(Tail(s), Append(cur, Head(s)), out)

Split(s) == SplitFrom(s, <<>>, <<>>)

Digits == {"0", "1", "2", "3", "4", "5", "6", "7", "8", "9"}

DigitVal(c) ==
    CASE c = "0" -> 0 [] c = "1" -> 1 [] c = "2" -> 2 [] c = "3" -> 3
      [] c = "4" -> 4 [] c = "5" -> 5 [] c = "6" -> 6 [] c = "7" -> 7
      [] c = "8" -> 8 [] c = "9" -> 9

\* The largest i32; the smallest is -I32_MAX - 1.
I32_MAX == 2147483647

\* The digits of an i32 accumulated as from_str_radix does, towards the sign,
\* failing on overflow.
RECURSIVE Accumulate(_, _, _)
Accumulate(s, acc, negative) ==
    IF s = <<>> THEN [ok |-> TRUE, val |-> acc]
    ELSE LET d == DigitVal(Head(s))
         IN  IF negative
             THEN IF acc < (IF d = 0 THEN 0 - (I32_MAX \div 10)
                            ELSE 0 - (((I32_MAX - d) + 1) \div 10))
                  THEN [ok |-> FALSE, val |-> 0]
                  ELSE Accumulate(Tail(s), (10 * acc) - d, negative)
             ELSE IF acc > (I32_MAX - d) \div 10
                  THEN [ok |-> FALSE, val |-> 0]
                  ELSE Accumulate(Tail(s), (10 * acc) + d, negative)

\* str::parse::<i32>: an optional sign, then one or more digits, in range.
ParseI32(tok) ==
    LET signed == tok # <<>> /\ Head(tok) \in {"+", "-"}
        digits == IF signed THEN Tail(tok) ELSE tok
        wellFormed == digits # <<>> /\ \A i \in 1..Len(digits) : digits[i] \in Digits
    IN  IF wellFormed
        THEN Accumulate(digits, 0, signed /\ Head(tok) = "-")
        ELSE [ok |-> FALSE, val |-> 0]

\* The characters of a text joined into one string (for messages).
RECURSIVE Str(_)
Str(s) == IF s = <<>> THEN "" ELSE Head(s) \o Str(Tail(s))

\* The position of the first NUL byte of a text, 0 when there is none.
RECURSIVE NulPosFrom(_, _)
NulPosFrom(s, i) ==
    IF i > Len(s) THEN 0 ELSE IF s[i] = NUL THEN i ELSE NulPosFrom(s, i + 1)

NulPos(s) == NulPosFrom(s, 1)

\* ------------------------------------------------------------ message types
\* enum ToWindow: the Command Queue's messages.
ReplaceHtml(html) == [type |-> "ReplaceHtml", html |-> html, enabled |-> FALSE]
SetAlert(enabled) == [type |-> "SetAlert", html |-> <<>>, enabled |-> enabled]
SizeRequested == [type |-> "SizeRequested", html |-> <<>>, enabled |-> FALSE]
Close == [type |-> "Close", html |-> <<>>, enabled |-> FALSE]

\* enum ToLuau: the Event Queue's messages.
IpcMessage(body) == [type |-> "IpcMessage", body |-> body, w |-> 0, h |-> 0]
SizeReturned(w, h) == [type |-> "SizeReturned", body |-> <<>>, w |-> w, h |-> h]
WindowClosed == [type |-> "WindowClosed", body |-> <<>>, w |-> 0, h |-> 0]

\* enum UserEvent, and the two tao events the loop closure tells apart:
\* WindowEvent::CloseRequested, and every other event ("Other").
UserEvent(type, x, y, body) == [type |-> type, x |-> x, y |-> y, body |-> body]
CloseRequested == UserEvent("CloseRequested", 0, 0, <<>>)
OtherEvent == UserEvent("Other", 0, 0, <<>>)

\* ------------------------------------------------------- the ipc handler
Post(ev) == [outcome |-> "post", ev |-> ev]
Ignore == [outcome |-> "ignore", ev |-> OtherEvent]
Panic == [outcome |-> "panic", ev |-> OtherEvent]

\* The two coordinates of mousedown / mousemove: req.next().unwrap().parse().unwrap()
Coordinates(type, req) ==
    IF Len(req) < 2 THEN Panic
    ELSE LET x == ParseI32(req[2])
         IN  IF ~x.ok THEN Panic
             ELSE IF Len(req) < 3 THEN Panic
             ELSE LET y == ParseI32(req[3])
                  IN  IF ~y.ok THEN Panic
                      ELSE Post(UserEvent(type, x.val, y.val, <<>>))

\* The closure given to with_ipc_handler: what it does with a message body.
handler(body) ==
    IF StartsWith(body, S_input)
    THEN LET req == Split(Replace(body, S_input, <<>>))
             cmd == req[1]
         IN  CASE cmd = S_minimize -> Post(UserEvent("Minimize", 0, 0, <<>>))
               [] cmd = S_maximize -> Post(UserEvent("Maximize", 0, 0, <<>>))
               [] cmd = S_drag_window -> Post(UserEvent("DragWindow", 0, 0, <<>>))
               [] cmd = S_close -> Post(UserEvent("CloseWindow", 0, 0, <<>>))
               [] cmd = S_mousedown -> Coordinates("MouseDown", req)
               [] cmd = S_mousemove -> Coordinates("MouseMove", req)
               [] OTHER -> Ignore
    ELSE Post(UserEvent("SendIpc", 0, 0, body))

\* --------------------------------------------------------------- hit test
BORDERLESS_RESIZE_INSET == 5
CLIENT == 0
LEFT == 1
RIGHT == 2
TOP == 4
BOTTOM == 8
TOPLEFT == TOP + LEFT
TOPRIGHT == TOP + RIGHT
BOTTOMLEFT == BOTTOM + LEFT
BOTTOMRIGHT == BOTTOM + RIGHT

\* match result with Client as its last arm.
RegionWithoutNoWhere(result) ==
    CASE result = LEFT -> "Left"
      [] result = RIGHT -> "Right"
      [] result = TOP -> "Top"
      [] result = BOTTOM -> "Bottom"
      [] result = TOPLEFT -> "TopLeft"
      [] result = TOPRIGHT -> "TopRight"
      [] result = BOTTOMLEFT -> "BottomLeft"
      [] result = BOTTOMRIGHT -> "BottomRight"
      [] OTHER -> "Client"

\* match result of check_bounds: the region of a mask.
Region(result) ==
    CASE result = CLIENT -> "Client"
      [] result = LEFT -> "Left"
      [] result = RIGHT -> "Right"
      [] result = TOP -> "Top"
      [] result = BOTTOM -> "Bottom"
      [] result = TOPLEFT -> "TopLeft"
      [] result = TOPRIGHT -> "TopRight"
      [] result = BOTTOMLEFT -> "BottomLeft"
      [] result = BOTTOMRIGHT -> "BottomRight"
      [] OTHER -> "NoWhere"

\* The mask with the right and bottom edges tested one unit further in.
MaskInclusive(window_size, x, y, scale) ==
    LET width == (window_size[1] * 100) \div scale
        height == (window_size[2] * 100) \div scale
        inset == BORDERLESS_RESIZE_INSET
    IN  (LEFT * (IF x < inset THEN 1 ELSE 0))
        + (RIGHT * (IF x > width - inset THEN 1 ELSE 0))
        + (TOP * (IF y < inset THEN 1 ELSE 0))
        + (BOTTOM * (IF y > height - inset THEN 1 ELSE 0))

\* The mask check_bounds computes.  The scale factor is held in hundredths
\* (100 is 1.0), and the conversion (size as f64 / scale) as i32 truncates.
\* The four products have distinct bits, so their sum is their bitwise or.
Mask(window_size, x, y, scale) ==
    LET width == (window_size[1] * 100) \div scale
        height == (window_size[2] * 100) \div scale
        inset == BORDERLESS_RESIZE_INSET
    IN  (LEFT * (IF x < inset THEN 1 ELSE 0))
        + (RIGHT * (IF x >= width - inset THEN 1 ELSE 0))
        + (TOP * (IF y < inset THEN 1 ELSE 0))
        + (BOTTOM * (IF y >= height - inset THEN 1 ELSE 0))

\* check_bounds
check_bounds(window_size, x, y, scale) == Region(Mask(window_size, x, y, scale))

\* drag_resize_window with East and West exchanged.
drag_resize_window_mirrored(res) ==
    CASE res = "Left" -> "East"
      [] res = "Right" -> "West"
      [] res = "Top" -> "North"
      [] res = "Bottom" -> "South"
      [] res = "TopLeft" -> "NorthEast"
      [] res = "TopRight" -> "NorthWest"
      [] res = "BottomLeft" -> "SouthEast"
      [] res = "BottomRight" -> "SouthWest"
      [] OTHER -> "unreachable"

\* HitTestResult::drag_resize_window: the direction handed to the window,
\* "unreachable" for the arm that panics.
drag_resize_window(res) ==
    CASE res = "Left" -> "West"
      [] res = "Right" -> "East"
      [] res = "Top" -> "North"
      [] res = "Bottom" -> "South"
      [] res = "TopLeft" -> "NorthWest"
      [] res = "TopRight" -> "NorthEast"
      [] res = "BottomLeft" -> "SouthWest"
      [] res = "BottomRight" -> "SouthEast"
      [] OTHER -> "unreachable"

\* HitTestResult::change_cursor: the icon set on the window.
change_cursor(res) ==
    CASE res = "Left" -> "WResize"
      [] res = "Right" -> "EResize"
      [] res = "Top" -> "NResize"
      [] res = "Bottom" -> "SResize"
      [] res = "TopLeft" -> "NwResize"
      [] res = "TopRight" -> "NeResize"
      [] res = "BottomLeft" -> "SwResize"
      [] res = "BottomRight" -> "SeResize"
      [] OTHER -> "Default"

\* ----------------------------------------------------------- host values
\* A value on the Luau stack, as the handle operations see it: its type name,
\* and for userdata its tag and the pointer stored in it; for a string its
\* text, for a boolean its value.
WEBVIEW_IPC_TAG == 13

LuaValue(kind, tag, inner, str, bool) ==
    [kind |-> kind, tag |-> tag, inner |-> inner, str |-> str, bool |-> bool]

\* The userdata webview_create leaves on the stack.
Handle == LuaValue("userdata", WEBVIEW_IPC_TAG, "ipc", <<>>, FALSE)
LuaString(s) == LuaValue("string", 0, "null", s, FALSE)
LuaBoolean(b) == LuaValue("boolean", 0, "null", <<>>, b)
LuaNumber == LuaValue("number", 0, "null", <<>>, FALSE)

\* What a call returns to the host: the count of values it leaves on the
\* stack and the value on top (an error object, a string, nil, a vector).
Result(rets, kind, text, w, h) ==
    [rets |-> rets, kind |-> kind, text |-> text, w |-> w, h |-> h]

\* push_wrapped_error followed by return 1
WrappedError(msg) == Result(1, "error", msg, 0, 0)
Nothing == Result(0, "none", "", 0, 0)
Pending == Result(0, "pending", "", 0, 0)
Panicked == Result(0, "panic", "", 0, 0)

\* lua_touserdatatagged as lua_touserdata: the tag is not compared.
lua_touserdata_untagged(v, tag) == "ud"

\* lua_touserdatatagged: the userdata's block when its tag is the one asked
\* for, the null pointer otherwise.
lua_touserdatatagged(v, tag) == IF v.tag = tag THEN "ud" ELSE "null"

\* get with one message for both userdata rejections: a null inner pointer is
\* reported as a wrong tag.
get_one_message(v, function_name) ==
    IF v.kind = "userdata"
    THEN IF lua_touserdatatagged(v, WEBVIEW_IPC_TAG) = "null" \/ v.inner = "null"
         THEN [ok |-> FALSE,
               err |-> "self is the wrong kind of userdata (expected WebviewIpc tag 13)"]
         ELSE [ok |-> TRUE, err |-> ""]
    ELSE IF v.kind = "none"
    THEN [ok |-> FALSE, err |-> function_name \o ": you forgot to pass self"]
    ELSE [ok |-> FALSE,
          err |-> function_name \o ": expected to be passed self, got " \o v.kind]

\* WebviewIpc::get on the value at idx ("none" when idx is above the top).
get(v, function_name) ==
    IF v.kind = "userdata"
    THEN LET ud_ptr == lua_touserdatatagged(v, WEBVIEW_IPC_TAG)
         IN  IF ud_ptr = "null"
             THEN [ok |-> FALSE,
                   err |-> "self is the wrong kind of userdata (expected WebviewIpc tag 13)"]
             ELSE IF v.inner = "null"
             THEN [ok |-> FALSE,
                   err |-> "inner pointer to *mut WebviewIpc inside the userdata holding *mut *mut WebviewIpc is null"]
             ELSE [ok |-> TRUE, err |-> ""]
    ELSE IF v.kind = "none"
    THEN [ok |-> FALSE, err |-> function_name \o ": you forgot to pass self"]
    ELSE [ok |-> FALSE,
          err |-> function_name \o ": expected to be passed self, got " \o v.kind]

\* The stack slot at a negative index, "none" when there is no such slot.
At(stack, idx) ==
    IF Len(stack) + 1 + idx >= 1 THEN stack[Len(stack) + 1 + idx]
    ELSE LuaValue("none", 0, "null", <<>>, FALSE)

\* lua_tostring read as a C string: the text up to its first NUL byte.
CStr(s) == IF NulPos(s) = 0 THEN s ELSE SubSeq(s, 1, NulPos(s) - 1)

Checked(ok, err, html, enabled) ==
    [ok |-> ok, err |-> err, html |-> html, enabled |-> enabled]

\* The argument checks of each handle operation, up to its first channel
\* operation: whether they pass, the error message when they do not, and
\* the argument read.
replace_html_args(stack) ==
    LET function_name == "WebviewIpc:replace_html(new_html: string)"
        top == Len(stack)
    IN  IF top # 2
        THEN Checked(FALSE, function_name
                 \o ": called without required arguments; expected 2 arguments (self, string), got "
                 \o ToString(top), <<>>, FALSE)
        ELSE LET ipc == get(At(stack, -2), function_name)
             IN  IF ~ipc.ok THEN Checked(FALSE, ipc.err, <<>>, FALSE)
                 ELSE IF At(stack, -1).kind = "string"
                 THEN Checked(TRUE, "", CStr(At(stack, -1).str), FALSE)
                 ELSE Checked(FALSE, function_name
                          \o ": expected 'new_html' to be a string, got "
                          \o At(stack, -1).kind, <<>>, FALSE)

try_read_args(stack) ==
    LET function_name == "WebviewIpc:try_read(new_html: string)"
        top == Len(stack)
    IN  IF top # 1
        THEN Checked(FALSE, function_name
                 \o ": called without required arguments; expected 1 (self), got "
                 \o ToString(top), <<>>, FALSE)
        ELSE LET ipc == get(At(stack, -1), function_name)
             IN  Checked(ipc.ok, ipc.err, <<>>, FALSE)

\* alert_args without the test of enabled's type: lua_toboolean of whatever
\* is there.
alert_args_any_enabled(stack) ==
    LET function_name == "WebviewIpc:alert(enabled: boolean)"
        top == Len(stack)
    IN  IF top # 2
        THEN Checked(FALSE, function_name
                 \o ": expected to be called with 2 arguments, got "
                 \o ToString(top), <<>>, FALSE)
        ELSE LET ipc == get(At(stack, -2), function_name)
             IN  IF ~ipc.ok THEN Checked(FALSE, ipc.err, <<>>, FALSE)
                 ELSE Checked(TRUE, "", <<>>, At(stack, -1).bool)

alert_args(stack) ==
    LET function_name == "WebviewIpc:alert(enabled: boolean)"
        top == Len(stack)
    IN  IF top # 2
        THEN Checked(FALSE, function_name
                 \o ": expected to be called with 2 arguments, got "
                 \o ToString(top), <<>>, FALSE)
        ELSE LET ipc == get(At(stack, -2), function_name)
             IN  IF ~ipc.ok THEN Checked(FALSE, ipc.err, <<>>, FALSE)
                 ELSE IF At(stack, -1).kind = "boolean"
                 THEN Checked(TRUE, "", <<>>, At(stack, -1).bool)
                 ELSE Checked(FALSE, function_name
                          \o ": expected enabled to be a boolean, got something else or nil",
                          <<>>, FALSE)

size_args(stack) ==
    LET function_name == "WebviewIpc:size"
        top == Len(stack)
    IN  IF top # 1
        THEN Checked(FALSE, function_name
                 \o ": called without required arguments; expected 1 (self), got "
                 \o ToString(top), <<>>, FALSE)
        ELSE LET ipc == get(At(stack, -1), function_name)
             IN  Checked(ipc.ok, ipc.err, <<>>, FALSE)

close_args(stack) ==
    LET function_name == "WebviewIpc:close()"
        top == Len(stack)
    IN  IF top # 1
        THEN Checked(FALSE, function_name
                 \o ": expected to be called with only self, got "
                 \o ToString(top) \o " arguments", <<>>, FALSE)
        ELSE LET ipc == get(At(stack, -1), function_name)
             IN  Checked(ipc.ok, ipc.err, <<>>, FALSE)

\* A table as webview_create reads it: the values of its title and html
\* fields (nil for a field it does not have).  size, resizeable, min_size and
\* max_size are left at their defaults.
LuaNil == LuaValue("nil", 0, "null", <<>>, FALSE)
LuaTable(title, html) == [kind |-> "table", title |-> title, html |-> html]

\* The object push_wrapped_error leaves on the stack is made by the host's
\* @std/err, which is no part of these sources: it is a userdata or a table,
\* and as a table it has no title or html field.
WrappedErrorObjects == {LuaValue("userdata", 0, "null", <<>>, FALSE), LuaTable(LuaNil, LuaNil)}

\* WebviewOptions::from_table_on_stack on the table at the top of the stack.
from_table_on_stack(t, function_name) ==
    LET title == IF t.title.kind = "string" THEN CStr(t.title.str)
                 ELSE <<"s", "e", "a", "l">>
    IN  IF t.html.kind = "string"
        THEN [ok |-> TRUE, err |-> "",
              options |-> [title |-> title, html |-> CStr(t.html.str),
                           size |-> <<420, 600>>]]
        ELSE [ok |-> FALSE,
              err |-> function_name \o ": missing or incorrect table field 'html' (got "
                      \o t.html.kind \o ")",
              options |-> [title |-> <<>>, html |-> <<>>, size |-> <<0, 0>>]]

\* ------------------------------------------------------------- the inputs
\* The content of template.html, which HTML_HEADER includes: a shell with the
\* two placeholders.
HTML_HEADER == <<"<">> \o S_REPLACETITLE \o <<">">> \o S_REPLACEBODY

\* HTML_HEADER with the title and the body put in, as spawn does twice.
Render(title, body) ==
    Replace(Replace(HTML_HEADER, S_REPLACETITLE, title), S_REPLACEBODY, body)

\* The creation options spawn runs with, and the window tao builds for them.
Options == {[title |-> <<"T">>, html |-> <<"h">>, size |-> <<800, 600>>]}

\* window.scale_factor(), in hundredths: a display at 1.0.
ScaleFactors == {100}

\* The stacks the host calls the handle operations with.

WrongTag == LuaValue("userdata", 7, "ipc", <<>>, FALSE)
NullInner == LuaValue("userdata", WEBVIEW_IPC_TAG, "null", <<>>, FALSE)

\* For each operation: a stack of the wrong height, well-formed stacks, and
\* stacks of the right height whose self or whose argument is not what the
\* operation takes.
OneArgStacks ==
    {<<>>, <<Handle, LuaNumber>>, <<Handle>>, <<WrongTag>>, <<NullInner>>, <<LuaNumber>>}

TwoArgStacks(arg) ==
    {<<Handle>>, <<Handle, arg>>, <<WrongTag, arg>>, <<NullInner, arg>>,
     <<LuaNumber, arg>>, <<Handle, LuaNumber>>}

Stacks ==
    [replace_html |-> TwoArgStacks(LuaString(<<"x">>)),
     try_read |-> OneArgStacks,
     close |-> OneArgStacks,
     alert |-> TwoArgStacks(LuaBoolean(TRUE)),
     size |-> OneArgStacks]

\* The well-formed stacks among them, for each operation.
CallStacks ==
    [replace_html |-> {<<Handle, LuaString(<<"x">>)>>},
     try_read |-> {<<Handle>>},
     close |-> {<<Handle>>},
     alert |-> {<<Handle, LuaBoolean(TRUE)>>},
     size |-> {<<Handle>>}]

\* The messages the content script posts.
Bodies == {<<"a">>, <<"b">>, S_input \o S_close}

\* The messages of a content script that also posts the reserved commands,
\* well-formed and not: the six reserved forms, commands with malformed
\* coordinates, input! with an unknown command and alone, and application
\* content.
InputBodies ==
    {S_input \o S_minimize,
     S_input \o S_maximize,
     S_input \o S_drag_window,
     S_input \o S_close,
     S_input \o S_mousedown \o <<":", "1", ",", "2">>,
     S_input \o S_mousemove \o <<":", "1", ",", "2">>,
     S_input \o S_mousedown \o <<":", "a", "b", "c">>,
     S_input \o S_mousemove \o <<":", "1">>,
     S_input \o S_mousedown \o <<":">>,
     S_input \o <<"f", "o", "o">>,
     S_input,
     <<"a">>}

\* An i32 as the content script writes it in a message: decimal digits, with
\* a minus sign when negative.
DigitChar(d) ==
    CASE d = 0 -> "0" [] d = 1 -> "1" [] d = 2 -> "2" [] d = 3 -> "3"
      [] d = 4 -> "4" [] d = 5 -> "5" [] d = 6 -> "6" [] d = 7 -> "7"
      [] d = 8 -> "8" [] d = 9 -> "9"

RECURSIVE DecNat(_)
DecNat(n) ==
    IF n < 10 THEN <<DigitChar(n)>>
    ELSE Append(DecNat(n \div 10), DigitChar(n % 10))

Dec(n) == IF n < 0 THEN <<"-">> \o DecNat(0 - n) ELSE DecNat(n)

\* input!mousedown:<x>,<y> and input!mousemove:<x>,<y>
MouseBody(cmd, x, y) == S_input \o cmd \o <<":">> \o Dec(x) \o <<",">> \o Dec(y)

\* The pointer coordinates the content script reports: around every edge of
\* the windows of HitDisplays, outside them, and in their middle.
HitXs == {-1, 0, 2, 3, 4, 5, 6, 7, 400, 794, 795, 799}
HitYs == {-1, 0, 1, 2, 4, 5, 6, 300, 594, 595, 599}

MouseBodies ==
    {MouseBody(cmd, x, y) : cmd \in {S_mousedown, S_mousemove}, x \in HitXs, y \in HitYs}

\* Windows for the hit test, by logical size asked for and scale factor: a
\* usual one, small ones just wider and taller than twice the inset, ones
\* narrower, lower or both, one whose logical size is no whole number (11 at
\* 1.25 is 14 pixels, 11.2 logical), and one on a display at 2.0.
Display(w, h, scale) ==
    [options |-> [title |-> <<"T">>, html |-> <<"h">>, size |-> <<w, h>>],
     scale |-> scale]

HitDisplays ==
    {Display(800, 600, 100), Display(12, 11, 100), Display(8, 7, 100),
     Display(8, 11, 100), Display(12, 7, 100), Display(11, 11, 125),
     Display(400, 300, 200)}

\* ------------------------------------------------------------------ state
VARIABLES
    commands,       \* the Command Queue (ToWindow), oldest first
    events,         \* the Event Queue (ToLuau), oldest first
    wpc,            \* the window thread: "none" (not spawned yet), "spawn", "poll",
                    \* "dispatch", "exiting", "terminated" (its channel ends
                    \* dropped), "aborted"
    control_flow,   \* the loop's control flag: "Poll" or "Exit"
    event,          \* the native event of the current closure invocation
    nativeQ,        \* native events waiting in the event loop
    window,         \* the window and its webview
    options,        \* the WebviewOptions spawn was given
    hpc,            \* the host thread: "idle", "size_recv" (blocked in recv), "panicked"
    lastCall,       \* the host's latest call of a handle operation and its result
    emitted,        \* history: the IpcMessage and WindowClosed events enqueued
    handed,         \* history: the events try_read handed to the host
    posted,         \* history: how many messages the content script posted
    closedObserved, \* history: the host has dequeued WindowClosed
    created         \* what webview_create has done so far: "options" (the option
                    \* reader was run), "queues", "thread", "handle"

vars == <<commands, events, wpc, control_flow, event, nativeQ, window, options,
          hpc, lastCall, emitted, handed, posted, closedObserved, created>>

hostVars == <<hpc, lastCall, handed, closedObserved, created>>
windowVars == <<wpc, control_flow, event, nativeQ, window, options, posted>>

\* A call as the host made it: the operation, the stack it was given, what it
\* returned, whether it reached a channel operation, the type of the event it
\* dequeued ("none" without one), and what held when it was made.
Call(op, stack, result, chan, got) ==
    [op |-> op, args |-> stack, result |-> result, chan |-> chan, got |-> got,
     wterm |-> (wpc = "terminated"), afterClosed |-> closedObserved]

\* Everything a webview_create that succeeds does.
AllCreated == {"options", "queues", "thread", "handle"}

\* The state webview_create leaves.  Each of displays pairs the options it
\* may have been given with the scale factor of the display the window opens
\* on.
InitWith(displays) ==
    /\ commands = <<>>
    /\ events = <<>>
    /\ wpc = "spawn"
    /\ control_flow = "Poll"
    /\ event = OtherEvent
    /\ nativeQ = <<>>
    /\ \E d \in displays :
          /\ options = d.options
          /\ window = [built |-> FALSE, inner_size |-> <<0, 0>>,
                       scale_factor |-> d.scale,
                       html |-> <<>>, attention |-> "None",
                       minimized |-> FALSE, maximized |-> FALSE, dragging |-> FALSE,
                       resize |-> "None", cursor |-> "Default"]
    /\ hpc = "idle"
    /\ emitted = <<>>
    /\ handed = <<>>
    /\ posted = 0
    /\ closedObserved = FALSE
    /\ created = AllCreated
    /\ lastCall = Call("create", <<>>, Nothing, FALSE, "none")

Init == InitWith({[options |-> o, scale |-> f] : o \in Options, f \in ScaleFactors})

\* ------------------------------------------------------------ the channels
\* The window thread holds the Command Queue's only receiver and the Event
\* Queue's only sender; it drops both when its closure is dropped.  The host's
\* ends live in the leaked WebviewIpc and are never dropped.
\* The window thread's channel ends outliving it.
WindowEndsKept == FALSE

\* The window thread's channel ends dropped as soon as the loop is told to end.
WindowEndsDroppedAtExit == wpc \in {"exiting", "terminated"}

WindowEndsDropped == wpc = "terminated"

SendErrorText == "sending on a disconnected channel"
RecvErrorText == "receiving on an empty and disconnected channel"

\* ------------------------------------------------------- host operations
\* The host thread makes one call at a time; a process the ipc handler's
\* panic has aborted makes none.
HostReady == hpc = "idle" /\ wpc # "aborted" /\ "handle" \in created

\* A call that ends in its argument checks: the error is returned and nothing
\* else changes.
Rejected(op, stack, err) ==
    /\ lastCall' = Call(op, stack, WrappedError(err), FALSE, "none")
    /\ UNCHANGED <<commands, events, hpc, handed, closedObserved>>

\* send on a rendezvous channel: the call waits until the window thread
\* takes the command.
SendCommandRendezvous(op, stack, cmd, prefix, lim) ==
    IF wpc = "terminated"
    THEN /\ lastCall' = Call(op, stack, WrappedError(prefix \o SendErrorText), TRUE, "none")
         /\ UNCHANGED <<commands, events, hpc, handed, closedObserved>>
    ELSE /\ Len(commands) < lim.commands
         /\ commands' = Append(commands, cmd)
         /\ lastCall' = Call(op, stack, Pending, TRUE, "none")
         /\ hpc' = "size_recv"
         /\ UNCHANGED <<events, handed, closedObserved>>

\* send with its result ignored: the call returns success whatever send did.
SendCommandUnchecked(op, stack, cmd, prefix, lim) ==
    /\ Len(commands) < lim.commands
    /\ commands' = IF WindowEndsDropped THEN commands ELSE Append(commands, cmd)
    /\ lastCall' = Call(op, stack, Nothing, TRUE, "none")
    /\ UNCHANGED <<events, hpc, handed, closedObserved>>

\* send that puts the command before those waiting: a stack, not a queue.
SendCommandPrepends(op, stack, cmd, prefix, lim) ==
    IF WindowEndsDropped
    THEN /\ lastCall' = Call(op, stack, WrappedError(prefix \o SendErrorText), TRUE, "none")
         /\ UNCHANGED <<commands, events, hpc, handed, closedObserved>>
    ELSE /\ Len(commands) < lim.commands
         /\ commands' = <<cmd>> \o commands
         /\ lastCall' = Call(op, stack, Nothing, TRUE, "none")
         /\ UNCHANGED <<events, hpc, handed, closedObserved>>

\* ipc.sender.send(cmd) of a fire-and-forget operation, with the message
\* prefix its error is wrapped in.  lim.commands bounds the Command Queue.
SendCommand(op, stack, cmd, prefix, lim) ==
    IF WindowEndsDropped
    THEN /\ lastCall' = Call(op, stack, WrappedError(prefix \o SendErrorText), TRUE, "none")
         /\ UNCHANGED <<commands, events, hpc, handed, closedObserved>>
    ELSE /\ Len(commands) < lim.commands
         /\ commands' = Append(commands, cmd)
         /\ lastCall' = Call(op, stack, Nothing, TRUE, "none")
         /\ UNCHANGED <<events, hpc, handed, closedObserved>>

\* WebviewIpc::replace_html
replace_html(stack, lim) ==
    /\ HostReady
    /\ LET chk == replace_html_args(stack)
       IN  IF ~chk.ok THEN Rejected("replace_html", stack, chk.err)
           ELSE SendCommand("replace_html", stack, ReplaceHtml(chk.html),
                            "unable to send message due to err: ", lim)
    /\ UNCHANGED <<windowVars, emitted, created>>

\* WebviewIpc::alert
alert(stack, lim) ==
    /\ HostReady
    /\ LET chk == alert_args(stack)
       IN  IF ~chk.ok THEN Rejected("alert", stack, chk.err)
           ELSE SendCommand("alert", stack, SetAlert(chk.enabled),
                            "WebviewIpc:alert(enabled: boolean): unable to send message via ipc due to err: ",
                            lim)
    /\ UNCHANGED <<windowVars, emitted, created>>

\* WebviewIpc::close
close(stack, lim) ==
    /\ HostReady
    /\ LET chk == close_args(stack)
       IN  IF ~chk.ok THEN Rejected("close", stack, chk.err)
           ELSE SendCommand("close", stack, Close,
                            "WebviewIpc:close(): unable to send message to close window due to err: ",
                            lim)
    /\ UNCHANGED <<windowVars, emitted, created>>

\* The text lua_pushstring would hand over for the message's bytes as they
\* are: what precedes the first NUL byte.
ReadTextTruncated(body) ==
    IF NulPos(body) = 0 THEN Str(body) ELSE Str(SubSeq(body, 1, NulPos(body) - 1))

\* The text try_read hands over for an IpcMessage: CString::new(message), and
\* the replacement when the message holds a NUL byte.
ReadText(body) ==
    IF NulPos(body) = 0 THEN Str(body)
    ELSE "WebviewIpc:try_read(new_html: string): IPC message contains NUL byte at "
         \o ToString(NulPos(body) - 1)

\* WebviewIpc::try_read: ipc.receiver.try_recv() and its five arms.
try_read(stack) ==
    /\ HostReady
    /\ LET chk == try_read_args(stack)
       IN  IF ~chk.ok THEN Rejected("try_read", stack, chk.err)
           ELSE IF events # <<>>
           THEN LET ev == Head(events)
                IN  /\ events' = Tail(events)
                    /\ UNCHANGED commands
                    /\ CASE ev.type = "IpcMessage" ->
                              /\ lastCall' = Call("try_read", stack,
                                     Result(1, "string", ReadText(ev.body), 0, 0),
                                     TRUE, ev.type)
                              /\ handed' = Append(handed, ev)
                              /\ UNCHANGED <<hpc, closedObserved>>
                         [] ev.type = "WindowClosed" ->
                              /\ lastCall' = Call("try_read", stack,
                                     WrappedError("the window has been closed"),
                                     TRUE, ev.type)
                              /\ handed' = Append(handed, ev)
                              /\ closedObserved' = TRUE
                              /\ UNCHANGED hpc
                         [] ev.type = "SizeReturned" ->
                              \* unreachable!("only reachable from WindowIpc:size()")
                              /\ lastCall' = Call("try_read", stack, Panicked, TRUE, ev.type)
                              /\ hpc' = "panicked"
                              /\ UNCHANGED <<handed, closedObserved>>
           ELSE /\ lastCall' = Call("try_read", stack,
                       IF WindowEndsDropped
                       THEN WrappedError("channel is disconnected")
                       ELSE Result(1, "nil", "", 0, 0),
                       TRUE, "none")
                /\ UNCHANGED <<commands, events, hpc, handed, closedObserved>>
    /\ UNCHANGED <<windowVars, emitted, created>>

\* WebviewIpc::size up to its blocking receive: the argument checks and
\* ipc.sender.send(ToWindow::SizeRequested).
size(stack, lim) ==
    /\ HostReady
    /\ LET chk == size_args(stack)
       IN  IF ~chk.ok THEN Rejected("size", stack, chk.err)
           ELSE IF WindowEndsDropped
           THEN /\ lastCall' = Call("size", stack,
                       WrappedError("WebviewIpc:size: unable to send request for size due to err "
                                    \o SendErrorText), TRUE, "none")
                /\ UNCHANGED <<commands, events, hpc, handed, closedObserved>>
           ELSE /\ Len(commands) < lim.commands
                /\ commands' = Append(commands, SizeRequested)
                /\ lastCall' = Call("size", stack, Pending, TRUE, "none")
                /\ hpc' = "size_recv"
                /\ UNCHANGED <<events, handed, closedObserved>>
    /\ UNCHANGED <<windowVars, emitted, created>>

\* {:?} of a ToLuau that is no SizeReturned
DebugFmt(ev) ==
    IF ev.type = "IpcMessage" THEN "IpcMessage(\"" \o Str(ev.body) \o "\")"
    ELSE ev.type

\* WebviewIpc::size from ipc.receiver.recv() on: the call blocks until the
\* Event Queue holds an event or its sender is dropped.
size_recv ==
    /\ hpc = "size_recv"
    /\ wpc # "aborted"
    /\ IF events # <<>>
       THEN LET ev == Head(events)
                res == IF ev.type = "SizeReturned"
                       THEN Result(1, "vector", "", ev.w, ev.h)
                       ELSE WrappedError("WebviewIpc:size: unexpected message type returned: "
                                         \o DebugFmt(ev))
            IN  /\ events' = Tail(events)
                /\ lastCall' = [lastCall EXCEPT !.result = res, !.got = ev.type]
                /\ closedObserved' = (closedObserved \/ ev.type = "WindowClosed")
       ELSE /\ WindowEndsDropped
            /\ lastCall' = [lastCall EXCEPT !.result =
                                WrappedError("WebviewIpc:size: unable to recv due to err: "
                                             \o RecvErrorText)]
            /\ UNCHANGED <<events, closedObserved>>
    /\ hpc' = "idle"
    /\ UNCHANGED <<commands, handed, windowVars, emitted, created>>

\* webview_create.  After the error for an argument count other than 1 is
\* pushed the function goes on (there is no return): the value at -1 is then
\* that error object.
webview_create(stack) ==
    /\ hpc = "idle"
    /\ "handle" \notin created
    /\ \E wrapped \in WrappedErrorObjects :
          LET function_name == "webview.create(options: WebviewOptions)"
              top == Len(stack)
              pushed == IF top # 1 THEN Append(stack, wrapped) ELSE stack
              t == At(pushed, -1)
              parsed == from_table_on_stack(t, function_name)
          IN  IF t.kind # "table"
              THEN /\ lastCall' = Call("create", stack,
                          WrappedError(function_name \o ": expected table, got: " \o t.kind),
                          FALSE, "none")
                   /\ UNCHANGED <<created, options, wpc>>
              ELSE IF ~parsed.ok
              THEN /\ lastCall' = Call("create", stack, WrappedError(parsed.err),
                                       FALSE, "none")
                   /\ created' = created \cup {"options"}
                   /\ UNCHANGED <<options, wpc>>
              ELSE /\ lastCall' = Call("create", stack,
                                       Result(1, "userdata", "", 0, 0), FALSE, "none")
                   /\ created' = AllCreated
                   /\ options' = parsed.options
                   /\ wpc' = "spawn"
    /\ UNCHANGED <<commands, events, control_flow, event, nativeQ, window, posted,
                   hpc, handed, closedObserved, emitted>>

\* ------------------------------------------------------ the window thread

\* with_inner_size(LogicalSize::new(w, h)): the physical size of the window
\* built, the logical size times the scale factor, to the nearest pixel.
PhysicalSize(logical, scale) ==
    <<((logical[1] * scale) + 50) \div 100, ((logical[2] * scale) + 50) \div 100>>

\* spawn up to event_loop.run: the window and the webview are built and the
\* initial content is loaded; or a build fails, spawn ends (by its ? or by a
\* panic of unwrap) and its channel ends are dropped with it.
WindowStart ==
    /\ wpc = "spawn"
    /\ \/ /\ window' = [window EXCEPT
                 !.built = TRUE,
                 !.inner_size = PhysicalSize(options.size, window.scale_factor),
                 !.html = Render(options.title, options.html)]
          /\ wpc' = "poll"
       \/ /\ wpc' = "terminated"
          /\ UNCHANGED window
    /\ UNCHANGED <<commands, events, control_flow, event, nativeQ, options, posted,
                   hostVars, emitted>>

\* The content script posts a message: the ipc handler runs on the window
\* thread, between two invocations of the loop closure.
ContentScript(body, lim) ==
    /\ wpc = "poll"
    /\ posted < lim.messages
    /\ Len(nativeQ) < MaxNative
    /\ posted' = posted + 1
    /\ LET h == handler(body)
       IN  /\ nativeQ' = IF h.outcome = "post" THEN Append(nativeQ, h.ev) ELSE nativeQ
           /\ wpc' = IF h.outcome = "panic" THEN "aborted" ELSE wpc
    /\ UNCHANGED <<commands, events, control_flow, event, window, options,
                   hostVars, emitted>>

\* The user asks the window system to close the window.
OsCloseRequest ==
    /\ wpc = "poll"
    /\ Len(nativeQ) < MaxNative
    /\ nativeQ' = Append(nativeQ, CloseRequested)
    /\ UNCHANGED <<commands, events, wpc, control_flow, event, window, options,
                   posted, hostVars, emitted>>

\* The control flag after the command poll: Poll, or Exit for a Close.
PollFlow(cmd) == IF cmd.type = "Close" THEN "Exit" ELSE "Poll"

\* The command poll with a SizeRequested arm that sends nothing.
PollEventsSilent(cmd) == <<>>

\* The events the command poll enqueues: SizeReturned for a SizeRequested.
PollEvents(cmd) ==
    IF cmd.type = "SizeRequested"
    THEN <<SizeReturned(window.inner_size[1], window.inner_size[2])>>
    ELSE <<>>

\* match event with a SendIpc arm that ends the loop as the close arm does.
DispatchFlowExitsOnSend(ev, flow) ==
    IF ev.type \in {"CloseRequested", "CloseWindow", "SendIpc"} THEN "Exit" ELSE flow

\* match event with arms that set the flag back to Poll for every event that
\* is no close event.
DispatchFlowResets(ev, flow) ==
    IF ev.type \in {"CloseRequested", "CloseWindow"} THEN "Exit" ELSE "Poll"

\* match event without *control_flow = ControlFlow::Exit in its close arm.
DispatchFlowKeepsRunning(ev, flow) == flow

\* The control flag after match event: Exit for the two close events,
\* otherwise as the command poll left it.
DispatchFlow(ev, flow) ==
    IF ev.type \in {"CloseRequested", "CloseWindow"} THEN "Exit" ELSE flow

\* The events match event enqueues.
DispatchEvents(ev) ==
    CASE ev.type \in {"CloseRequested", "CloseWindow"} -> <<WindowClosed>>
      [] ev.type = "SendIpc" -> <<IpcMessage(ev.body)>>
      [] OTHER -> <<>>

\* The command poll as a loop that takes every waiting command.
AfterPollDrained(queue) == <<>>

\* The Command Queue after receiver.try_recv() has taken a command from it.
AfterPoll(queue) == Tail(queue)

\* The loop closure, first half: control_flow is set to Poll, one command is
\* polled with try_recv and handled.  The invocation is for the oldest waiting
\* native event, or for one of the loop's own events (NewEvents,
\* MainEventsCleared, ...), which the closure's match ignores.
WindowPoll ==
    /\ wpc = "poll"
    /\ \E native \in BOOLEAN :
          IF native /\ nativeQ # <<>>
          THEN event' = Head(nativeQ) /\ nativeQ' = Tail(nativeQ)
          ELSE event' = OtherEvent /\ UNCHANGED nativeQ
    /\ IF commands = <<>>
       THEN /\ control_flow' = "Poll"
            /\ UNCHANGED <<commands, events, window>>
       ELSE LET cmd == Head(commands)
            IN  /\ commands' = AfterPoll(commands)
                /\ control_flow' = PollFlow(cmd)
                /\ events' = events \o PollEvents(cmd)
                /\ window' = CASE cmd.type = "ReplaceHtml" ->
                                    [window EXCEPT !.html = Render(options.title, cmd.html)]
                               [] cmd.type = "SetAlert" ->
                                    [window EXCEPT !.attention =
                                        IF cmd.enabled THEN "Critical" ELSE "None"]
                               [] OTHER -> window
    /\ wpc' = "dispatch"
    /\ UNCHANGED <<options, posted, hostVars, emitted>>

\* The loop closure, second half: match event.  When the closure returns with
\* control_flow at Exit the loop ends.
WindowDispatch ==
    /\ wpc = "dispatch"
    /\ LET flow == DispatchFlow(event, control_flow)
           out == DispatchEvents(event)
           hit == check_bounds(window.inner_size, event.x, event.y, window.scale_factor)
       IN  /\ events' = events \o out
           /\ emitted' = emitted \o out
           /\ control_flow' = flow
           /\ event' = OtherEvent
           /\ wpc' = IF flow = "Exit" THEN "exiting" ELSE "poll"
           /\ window' =
                CASE event.type = "Minimize" -> [window EXCEPT !.minimized = TRUE]
                  [] event.type = "Maximize" ->
                        [window EXCEPT !.maximized = ~window.maximized]
                  [] event.type = "DragWindow" -> [window EXCEPT !.dragging = TRUE]
                  [] event.type = "MouseDown" ->
                        IF hit \in {"Client", "NoWhere"} THEN window
                        ELSE [window EXCEPT !.resize = drag_resize_window(hit)]
                  [] event.type = "MouseMove" ->
                        [window EXCEPT !.cursor = change_cursor(hit)]
                  [] OTHER -> window
    /\ UNCHANGED <<commands, nativeQ, options, posted, hostVars>>

\* The loop has ended: the closure is dropped, and with it the Command
\* Queue's receiver and the Event Queue's sender; the event loop goes with
\* the native events it still held.
WindowExit ==
    /\ wpc = "exiting"
    /\ wpc' = "terminated"
    /\ nativeQ' = <<>>
    /\ UNCHANGED <<commands, events, control_flow, event, window, options,
                   posted, hostVars, emitted>>

\* ---------------------------------------------------------- specification
WindowStep == WindowStart \/ WindowPoll \/ WindowDispatch \/ WindowExit

\* The host's next call: stacks gives, for each operation, the stacks the host
\* calls it with.
HostStep(stacks, lim) ==
    \/ \E stack \in stacks.replace_html : replace_html(stack, lim)
    \/ \E stack \in stacks.try_read : try_read(stack)
    \/ \E stack \in stacks.close : close(stack, lim)
    \/ \E stack \in stacks.alert : alert(stack, lim)
    \/ \E stack \in stacks.size : size(stack, lim)
    \/ size_recv

NextOf(stacks, bodies, lim) ==
    \/ HostStep(stacks, lim)
    \/ WindowStep
    \/ \E body \in bodies : ContentScript(body, lim)
    \/ OsCloseRequest

\* The bridge protocol: the host calls every operation with well-formed
\* arguments, the content script posts application messages and input!close.
Next == NextOf(CallStacks, Bodies, [commands |-> MaxCommands, messages |-> MaxMessages])

Spec == Init /\ [][Next]_vars

\* The argument checks: the host calls every operation with every stack of
\* Stacks, well-formed or not, over a bridge that holds at most ArgMaxCommands
\* commands and carries at most ArgMaxMessages content messages.
ArgNext ==
    NextOf(Stacks, {<<"a">>}, [commands |-> ArgMaxCommands, messages |-> ArgMaxMessages])

ArgSpec == Init /\ [][ArgNext]_vars

\* The reserved commands: a content script that posts every message of
\* InputBodies, over a bridge that holds at most InMaxCommands commands and
\* carries at most InMaxMessages content messages.
InputLim == [commands |-> InMaxCommands, messages |-> InMaxMessages]

InputNext == NextOf(CallStacks, InputBodies, InputLim)

InputSpec == Init /\ [][InputNext]_vars

\* The hit test: the window thread alone, on each display of HitDisplays, with
\* a content script that reports at most HitMaxMessages pointer positions.
HitLim == [commands |-> InMaxCommands, messages |-> HitMaxMessages]

HitInit == InitWith(HitDisplays)

HitNext ==
    \/ WindowStep
    \/ \E body \in MouseBodies : ContentScript(body, HitLim)
    \/ OsCloseRequest

HitSpec == HitInit /\ [][HitNext]_vars

\* The size query: the bridge protocol with one content message, on a display
\* at 1.0 and on one at 2.0 (400 by 300 logical units are 800 by 600 pixels).
ScaleDisplays == {Display(800, 600, 100), Display(400, 300, 200)}

ScaleInit == InitWith(ScaleDisplays)

ScaleNext == NextOf(CallStacks, {<<"a">>}, InputLim)

ScaleSpec == ScaleInit /\ [][ScaleNext]_vars

\* The template substitution: a host that replaces the content with markup
\* that holds placeholder text, over windows whose configured title does or
\* does not.
RenderStacks ==
    [CallStacks EXCEPT !.replace_html =
        {<<Handle, LuaString(m)>> :
            m \in {<<"<", "b", ">", "x">>, S_REPLACETITLE, S_REPLACEBODY}}]

RenderInit ==
    InitWith({[options |-> [title |-> t, html |-> <<"h">>, size |-> <<800, 600>>],
               scale |-> 100] : t \in {<<"T">>, S_REPLACEBODY, S_REPLACETITLE}})

RenderNext == NextOf(RenderStacks, {<<"a">>}, InputLim)

RenderSpec == RenderInit /\ [][RenderNext]_vars

\* Content messages with NUL bytes: a content script that posts text without
\* a NUL byte, and text with one at its start, in its middle and at its end.
NulBodies == {<<"a", "b">>, <<NUL>>, <<"a", NUL, "b">>, <<"a", "b", NUL>>}

NulNext == NextOf(CallStacks, NulBodies, InputLim)

NulSpec == Init /\ [][NulNext]_vars

\* The order of commands: a host that replaces the content with two different
\* markups and sets and clears the alert, over a bridge that holds at most
\* MaxCommands commands and carries at most InMaxMessages content messages.
OrderStacks ==
    [CallStacks EXCEPT
        !.replace_html = {<<Handle, LuaString(<<"a">>)>>, <<Handle, LuaString(<<"b">>)>>},
        !.alert = {<<Handle, LuaBoolean(TRUE)>>, <<Handle, LuaBoolean(FALSE)>>}]

OrderNext ==
    NextOf(OrderStacks, {<<"a">>}, [commands |-> MaxCommands, messages |-> InMaxMessages])

OrderSpec == Init /\ [][OrderNext]_vars

\* The creation entrypoint: a host that holds no handle yet calls
\* webview.create with no argument, with a table that has an html field and
\* one that has none, with a number, and with two arguments; once it holds a
\* handle the bridge protocol follows.
CreateStacks ==
    {<<>>,
     <<LuaTable(LuaString(<<"T">>), LuaString(<<"h">>))>>,
     <<LuaTable(LuaNil, LuaString(<<"h">>))>>,
     <<LuaTable(LuaString(<<"T">>), LuaNil)>>,
     <<LuaNumber>>,
     <<LuaTable(LuaString(<<"T">>), LuaString(<<"h">>)), LuaNumber>>,
     <<LuaNumber, LuaTable(LuaString(<<"T">>), LuaString(<<"h">>))>>}

\* The state before webview.create is called: no queues, no window thread
\* ("none"), no handle.
CreateInit ==
    /\ commands = <<>>
    /\ events = <<>>
    /\ wpc = "none"
    /\ control_flow = "Poll"
    /\ event = OtherEvent
    /\ nativeQ = <<>>
    /\ options = [title |-> <<>>, html |-> <<>>, size |-> <<0, 0>>]
    /\ window = [built |-> FALSE, inner_size |-> <<0, 0>>, scale_factor |-> 100,
                 html |-> <<>>, attention |-> "None",
                 minimized |-> FALSE, maximized |-> FALSE, dragging |-> FALSE,
                 resize |-> "None", cursor |-> "Default"]
    /\ hpc = "idle"
    /\ emitted = <<>>
    /\ handed = <<>>
    /\ posted = 0
    /\ closedObserved = FALSE
    /\ created = {}
    /\ lastCall = Call("none", <<>>, Nothing, FALSE, "none")

CreateNext ==
    \/ \E stack \in CreateStacks : webview_create(stack)
    \/ NextOf(CallStacks, {<<"a">>}, InputLim)

CreateSpec == CreateInit /\ [][CreateNext]_vars

\* The window thread keeps running: the event loop polls continuously, and a
\* host blocked in recv is woken by an event or by the sender's drop.
Fairness == WF_vars(WindowStep) /\ WF_vars(size_recv)

FairSpec == Spec /\ Fairness

\* The size query with a window thread that keeps running.
FairScaleSpec == ScaleSpec /\ Fairness

\* ------------------------------------------------------------- properties
WindowClosedEmitted == \E i \in 1..Len(emitted) : emitted[i].type = "WindowClosed"

\* The loop has ended after having run (spawn built the window).
LoopEnded == wpc \in {"exiting", "terminated"} /\ window.built

NotSizeReturned(e) == e.type # "SizeReturned"

\* C1: whenever the event loop has ended - because of a Close command as much
\* as because of a close event - WindowClosed has been enqueued on the Event
\* Queue before the window thread exits.
C1_CloseEmitsWindowClosed == LoopEnded => WindowClosedEmitted

\* C2: try_read never dequeues a SizeReturned, so its unreachable arm is never
\* reached.
C2_TryReadNeverSeesSizeReturned ==
    lastCall.op = "try_read" => lastCall.got # "SizeReturned"

\* C3: a size() call that has returned while the window thread is running
\* dequeued a SizeReturned, and no other event.
C3_SizeReceivesSizeReturned ==
    (/\ lastCall.op = "size"
     /\ lastCall.result.kind # "pending"
     /\ wpc \in {"spawn", "poll", "dispatch"})
        => lastCall.got = "SizeReturned"

\* C4: no event is lost: the IpcMessage and WindowClosed events enqueued so far
\* are those try_read has handed to the host followed by those still in the
\* Event Queue, in enqueue order.
C4_NoEventLost == handed \o SelectSeq(events, NotSizeReturned) = emitted

\* C5: a size() call made after the host has observed WindowClosed returns an
\* error, and does not block forever: while it is blocked in recv, either the
\* receive can return or the window thread is about to drop its channel ends.
C5_SizeAfterClosedReturnsError ==
    /\ (/\ lastCall.op = "size"
        /\ lastCall.afterClosed
        /\ lastCall.result.kind # "pending") => lastCall.result.kind = "error"
    /\ (hpc = "size_recv" /\ lastCall.afterClosed)
          => (ENABLED size_recv \/ ENABLED WindowExit)

\* C5, as a liveness property of the fair specification: a size() call blocked
\* after the host has observed WindowClosed eventually returns an error.
C5_SizeAfterClosedReturns ==
    (hpc = "size_recv" /\ lastCall.afterClosed)
        ~> (hpc = "idle" /\ lastCall.op = "size" /\ lastCall.result.kind = "error")

\* A size() call made after WindowClosed was observed has blocked in recv and
\* returned the disconnection as an error.
C5_Witness ==
    /\ lastCall.op = "size"
    /\ lastCall.afterClosed
    /\ lastCall.result = WrappedError("WebviewIpc:size: unable to recv due to err: "
                                      \o RecvErrorText)

\* C6: WindowClosed is the last event: nothing follows it on the Event Queue,
\* the loop has ended once it is enqueued, and every try_read made after the
\* host has observed it finds the queue empty (nil) or disconnected.
C6_WindowClosedIsLast ==
    /\ \A i \in 1..Len(events) : events[i].type = "WindowClosed" => i = Len(events)
    /\ \A i \in 1..Len(emitted) : emitted[i].type = "WindowClosed" => i = Len(emitted)
    /\ WindowClosedEmitted => wpc \in {"exiting", "terminated"}
    /\ (lastCall.op = "try_read" /\ lastCall.afterClosed)
          => /\ lastCall.got = "none"
             /\ \/ lastCall.result.kind = "nil"
                \/ lastCall.result = WrappedError("channel is disconnected")

\* A try_read made after WindowClosed was observed, while the window thread
\* still holds its sender, has returned nil.
C6_Witness ==
    /\ lastCall.op = "try_read"
    /\ lastCall.afterClosed
    /\ lastCall.result.kind = "nil"

SendOps == {"replace_html", "alert", "close", "size"}

\* C7: once the window thread has terminated, a replace_html, alert, close or
\* size call whose arguments pass returns an error, and enqueues nothing.
C7_SendAfterTerminationFails ==
    /\ []((lastCall.op \in SendOps /\ lastCall.wterm /\ lastCall.chan)
             => lastCall.result.kind = "error")
    /\ [][wpc = "terminated" => commands' = commands]_vars

\* The window thread has processed a Close command and terminated (without a
\* close event), and a later replace_html has returned the send's error.
C7_Witness ==
    /\ LoopEnded
    /\ ~WindowClosedEmitted
    /\ lastCall.op = "replace_html"
    /\ lastCall.wterm
    /\ lastCall.result = WrappedError("unable to send message due to err: " \o SendErrorText)

\* C8: after the window thread has terminated, try_read hands over what the
\* Event Queue still holds and then returns the disconnection as an error,
\* never nil; no call panics.
C8_DrainThenDisconnected ==
    (lastCall.op = "try_read" /\ lastCall.wterm /\ lastCall.chan)
        => /\ lastCall.result.kind # "panic"
           /\ lastCall.result.kind # "nil"
           /\ lastCall.got = "none"
                 => lastCall.result = WrappedError("channel is disconnected")

\* The self a call presented: the bottom of its stack.
SelfOf(stack) ==
    IF stack = <<>> THEN LuaValue("none", 0, "null", <<>>, FALSE) ELSE stack[1]

\* The three extraction checks on a presented self.
PassesChecks(v) ==
    v.kind = "userdata" /\ v.tag = 13 /\ v.inner # "null"

HandleOps == {"replace_html", "try_read", "close", "alert", "size"}

\* C9: in each of the five operations a channel operation happens only when the
\* presented self is userdata, tagged 13 and holding a non-null pointer; a call
\* whose self fails one of the three returns an error and leaves both queues as
\* they were.
C9_ChecksBeforeDereference ==
    /\ [](lastCall.op \in HandleOps =>
            /\ lastCall.chan => PassesChecks(SelfOf(lastCall.args))
            /\ ~PassesChecks(SelfOf(lastCall.args))
                  => (lastCall.result.kind = "error" /\ ~lastCall.chan))
    /\ [][(lastCall' # lastCall /\ ~PassesChecks(SelfOf(lastCall'.args)))
             => UNCHANGED <<commands, events>>]_vars

\* A call whose self is userdata with another tag has been rejected; so has one
\* whose self holds a null pointer, in another behaviour.
C9_Witness ==
    /\ lastCall.op = "size"
    /\ SelfOf(lastCall.args) = WrongTag
    /\ lastCall.result.kind = "error"
    /\ ~lastCall.chan

\* The argument checks of an operation, by its name.
ArgsOf(op, stack) ==
    CASE op = "replace_html" -> replace_html_args(stack)
      [] op = "try_read" -> try_read_args(stack)
      [] op = "close" -> close_args(stack)
      [] op = "alert" -> alert_args(stack)
      [] op = "size" -> size_args(stack)

Arity(op) == IF op \in {"replace_html", "alert"} THEN 2 ELSE 1

\* Why a stack is rejected, among the three causes of the claim.
Cause(op, stack) ==
    IF Len(stack) # Arity(op) THEN "count"
    ELSE IF SelfOf(stack).kind = "userdata" /\ SelfOf(stack).tag # 13 THEN "tag"
    ELSE IF SelfOf(stack).kind = "userdata" /\ SelfOf(stack).inner = "null" THEN "null"
    ELSE "other"

\* C10: the error a call was rejected with for one of the three causes (wrong
\* argument count, wrong tag, null inner pointer) differs from the error the
\* same operation gives a stack rejected for another of the three.
C10_DistinctRejections ==
    (lastCall.op \in HandleOps /\ Cause(lastCall.op, lastCall.args) # "other")
        => /\ lastCall.result.kind = "error"
           /\ \A s \in Stacks[lastCall.op] :
                 (Cause(lastCall.op, s) \notin {"other", Cause(lastCall.op, lastCall.args)})
                    => /\ ~ArgsOf(lastCall.op, s).ok
                       /\ ArgsOf(lastCall.op, s).err # lastCall.result.text

\* A call presenting a correctly tagged userdata that holds a null pointer has
\* been rejected.
C10_Witness ==
    /\ lastCall.op = "replace_html"
    /\ Cause(lastCall.op, lastCall.args) = "null"
    /\ lastCall.result.kind = "error"

\* An argument-shape error of a call: the wrong argument count, a self that is
\* no handle, a new_html that is no string, an enabled that is no boolean.
ShapeError(op, stack) ==
    \/ Len(stack) # Arity(op)
    \/ ~PassesChecks(SelfOf(stack))
    \/ op = "replace_html" /\ stack[2].kind # "string"
    \/ op = "alert" /\ stack[2].kind # "boolean"

\* C11: a call with an argument-shape error returns an error without having
\* reached a channel operation, and the step that makes it leaves the Command
\* Queue, the Event Queue and the window thread as they were.
C11_ShapeErrorTouchesNothing ==
    /\ []((lastCall.op \in HandleOps /\ ShapeError(lastCall.op, lastCall.args))
             => (lastCall.result.kind = "error" /\ ~lastCall.chan))
    /\ [][(/\ lastCall' # lastCall
           /\ lastCall'.op \in HandleOps
           /\ ShapeError(lastCall'.op, lastCall'.args))
             => UNCHANGED <<commands, events, windowVars, emitted, hpc>>]_vars

\* alert has been called with a handle and a number while a command waits in
\* the Command Queue, and was rejected.
C11_Witness ==
    /\ lastCall.op = "alert"
    /\ lastCall.args = <<Handle, LuaNumber>>
    /\ lastCall.result.kind = "error"
    /\ ~lastCall.chan
    /\ commands # <<>>

\* C12: the ipc handler returns normally for every message, a reserved
\* command with malformed trailing data included: the window thread is never
\* brought down by a message of the content script.
C12_MalformedInputDoesNotCrash == wpc # "aborted"

\* A decimal integer: an optional sign and one or more digits.
IsInt(tok) ==
    LET digits == IF tok # <<>> /\ Head(tok) \in {"+", "-"} THEN Tail(tok) ELSE tok
    IN  digits # <<>> /\ \A i \in 1..Len(digits) : digits[i] \in Digits

\* The six reserved command forms: the four bare commands, and mousedown and
\* mousemove followed by ":<int>,<int>".
Reserved(body) ==
    \/ body \in {S_input \o S_minimize, S_input \o S_maximize,
                 S_input \o S_drag_window, S_input \o S_close}
    \/ \E cmd \in {S_mousedown, S_mousemove} :
          LET prefix == S_input \o cmd \o <<":">>
          IN  /\ StartsWith(body, prefix)
              /\ \E k \in (Len(prefix) + 1)..Len(body) :
                    /\ body[k] = ","
                    /\ IsInt(SubSeq(body, Len(prefix) + 1, k - 1))
                    /\ IsInt(SubSeq(body, k + 1, Len(body)))

\* C13: a message that is none of the six reserved command forms is posted
\* to the loop as SendIpc with its body unchanged, and the loop enqueues it as
\* IpcMessage with that body; no reserved command reaches the Event Queue as
\* an IpcMessage.
C13_UnreservedIsForwarded ==
    /\ [](\A i \in 1..Len(emitted) :
             emitted[i].type = "IpcMessage" => ~Reserved(emitted[i].body))
    /\ [][\A body \in InputBodies :
             (ContentScript(body, InputLim) /\ ~Reserved(body))
                => nativeQ' = Append(nativeQ, UserEvent("SendIpc", 0, 0, body))]_vars
    /\ [][(wpc = "dispatch" /\ wpc' # wpc /\ event.type = "SendIpc")
             => events' = Append(events, IpcMessage(event.body))]_vars

\* C14: try_read on an empty Event Queue whose sender the window thread still
\* holds returns nil, not an error, and leaves both queues as they were.
C14_EmptyOpenReadsNil ==
    /\ []((/\ lastCall.op = "try_read"
           /\ lastCall.chan
           /\ lastCall.got = "none"
           /\ ~lastCall.wterm) => lastCall.result = Result(1, "nil", "", 0, 0))
    /\ [][\A stack \in CallStacks.try_read :
             (try_read(stack) /\ events = <<>> /\ wpc # "terminated")
                => /\ lastCall'.result.kind = "nil"
                   /\ UNCHANGED <<commands, events>>]_vars

\* try_read has returned nil while the loop, told to end, has not yet dropped
\* its channel ends.
C14_Witness ==
    /\ lastCall.op = "try_read"
    /\ lastCall.result.kind = "nil"
    /\ events = <<>>
    /\ window.built
    /\ wpc = "exiting"

Lim == [commands |-> MaxCommands, messages |-> MaxMessages]

\* C16: replace_html, alert, close and try_read never wait: when the host is
\* ready to call, try_read can be taken whatever the window thread's state, and
\* so can each of the three senders while the Command Queue is below the bound
\* the model gives it; having been called they have returned.  Only size is
\* ever found waiting.
C16_OnlySizeWaits ==
    /\ lastCall.result.kind = "pending" => lastCall.op = "size"
    /\ hpc = "size_recv" => (lastCall.op = "size" /\ lastCall.result.kind = "pending")
    /\ HostReady => ENABLED (\E stack \in CallStacks.try_read : try_read(stack))
    /\ (HostReady /\ Len(commands) < MaxCommands)
          => /\ ENABLED (\E stack \in CallStacks.replace_html : replace_html(stack, Lim))
             /\ ENABLED (\E stack \in CallStacks.alert : alert(stack, Lim))
             /\ ENABLED (\E stack \in CallStacks.close : close(stack, Lim))

\* close has returned success with another command already waiting and the
\* window thread not yet started.
C16_Witness ==
    /\ lastCall.op = "close"
    /\ lastCall.result = Nothing
    /\ wpc = "spawn"
    /\ Len(commands) >= 2

\* The loop closure is about to hit-test a pointer position.
HitTesting == wpc = "dispatch" /\ event.type \in {"MouseDown", "MouseMove"}

\* What check_bounds returns for the pointer position being dispatched.
Hit == check_bounds(window.inner_size, event.x, event.y, window.scale_factor)

\* The region of the four edge tests, as the classifier is described.
RegionOf(left, right, top, bottom) ==
    CASE ~left /\ ~right /\ ~top /\ ~bottom -> "Client"
      [] left /\ ~right /\ ~top /\ ~bottom -> "Left"
      [] ~left /\ right /\ ~top /\ ~bottom -> "Right"
      [] ~left /\ ~right /\ top /\ ~bottom -> "Top"
      [] ~left /\ ~right /\ ~top /\ bottom -> "Bottom"
      [] left /\ ~right /\ top /\ ~bottom -> "TopLeft"
      [] ~left /\ right /\ top /\ ~bottom -> "TopRight"
      [] left /\ ~right /\ ~top /\ bottom -> "BottomLeft"
      [] ~left /\ right /\ ~top /\ bottom -> "BottomRight"
      [] OTHER -> "NoWhere"

\* The reference classifier with the logical size the exact quotient of the
\* physical size by the scale: x >= width - 5 is (x + 5) * scale >= physical.
ExactReference(window_size, x, y, scale) ==
    RegionOf(x < 5, (x + 5) * scale >= window_size[1] * 100,
             y < 5, (y + 5) * scale >= window_size[2] * 100)

\* The reference classifier with the logical size that quotient truncated to
\* an integer.
TruncatedReference(window_size, x, y, scale) ==
    RegionOf(x < 5, x >= ((window_size[1] * 100) \div scale) - 5,
             y < 5, y >= ((window_size[2] * 100) \div scale) - 5)

\* The eight positions given for a window of 800 by 600 at scale 1.
Examples ==
    (<<0, 0>> :> "TopLeft") @@ (<<400, 0>> :> "Top") @@ (<<799, 0>> :> "TopRight")
    @@ (<<400, 300>> :> "Client") @@ (<<0, 300>> :> "Left")
    @@ (<<799, 599>> :> "BottomRight") @@ (<<-1, 300>> :> "Left")
    @@ (<<400, 599>> :> "Bottom")

ExamplesHold ==
    (/\ HitTesting
     /\ window.inner_size = <<800, 600>>
     /\ window.scale_factor = 100
     /\ <<event.x, event.y>> \in DOMAIN Examples)
        => Hit = Examples[<<event.x, event.y>>]

\* C17 as stated: check_bounds is the reference classifier whose logical size
\* is the physical size divided by the scale, and gives the eight examples.
C17_CheckBoundsIsExactReference ==
    /\ HitTesting =>
          Hit = ExactReference(window.inner_size, event.x, event.y, window.scale_factor)
    /\ ExamplesHold

\* C17, amended: check_bounds is the reference classifier whose logical size
\* is the physical size divided by the scale and truncated to an integer, and
\* gives the eight examples.
C17_CheckBoundsIsTruncatedReference ==
    /\ HitTesting =>
          Hit = TruncatedReference(window.inner_size, event.x, event.y, window.scale_factor)
    /\ ExamplesHold

\* A pointer at x = 6 in the window of 14 pixels at scale 1.25 (11.2 logical
\* units, truncated to 11) is on the right edge.
C17_Witness ==
    /\ HitTesting
    /\ window.inner_size = <<14, 14>>
    /\ window.scale_factor = 125
    /\ event.x = 6
    /\ event.y = 5
    /\ Hit = "Right"

\* A mask that holds an opposing pair: left and right, or top and bottom.
Opposing(m) == m % 4 = 3 \/ m \div 4 = 3

\* The mask of the pointer position being dispatched.
HitMask == Mask(window.inner_size, event.x, event.y, window.scale_factor)

\* The window's logical width and height both exceed twice the inset.
WideAndTall ==
    /\ window.inner_size[1] * 100 > 2 * BORDERLESS_RESIZE_INSET * window.scale_factor
    /\ window.inner_size[2] * 100 > 2 * BORDERLESS_RESIZE_INSET * window.scale_factor

\* C18: in a window wider and taller than twice the inset no pointer position
\* sets an opposing pair of bits and none is NoWhere; in the others a position
\* whose mask holds an opposing pair is NoWhere; and of the 16 masks exactly
\* the 7 that hold an opposing pair map to NoWhere.
C18_NoWhereOnlyForOpposingPairs ==
    /\ \A m \in 0..15 : Region(m) = "NoWhere" <=> Opposing(m)
    /\ Cardinality({m \in 0..15 : Region(m) = "NoWhere"}) = 7
    /\ (HitTesting /\ WideAndTall) => (~Opposing(HitMask) /\ Hit # "NoWhere")
    /\ (HitTesting /\ Opposing(HitMask)) => Hit = "NoWhere"

\* A pointer position that sets all four bits in the window of 8 by 7.
C18_Witness ==
    /\ HitTesting
    /\ ~WideAndTall
    /\ HitMask = 15
    /\ Hit = "NoWhere"

\* The eight edge and corner regions, with the resize direction and the
\* cursor icon of each.
EdgeRegions ==
    {"Left", "Right", "Top", "Bottom", "TopLeft", "TopRight", "BottomLeft", "BottomRight"}

Direction ==
    ("Left" :> "West") @@ ("Right" :> "East") @@ ("Top" :> "North")
    @@ ("Bottom" :> "South") @@ ("TopLeft" :> "NorthWest")
    @@ ("TopRight" :> "NorthEast") @@ ("BottomLeft" :> "SouthWest")
    @@ ("BottomRight" :> "SouthEast")

Icon ==
    ("Left" :> "WResize") @@ ("Right" :> "EResize") @@ ("Top" :> "NResize")
    @@ ("Bottom" :> "SResize") @@ ("TopLeft" :> "NwResize")
    @@ ("TopRight" :> "NeResize") @@ ("BottomLeft" :> "SwResize")
    @@ ("BottomRight" :> "SeResize")

\* C19: a mouse-down starts the native drag-resize exactly when the region is
\* one of the eight, in that region's direction, and never reaches the
\* unreachable arm; a mouse-move sets the region's icon, Default for Client
\* and NoWhere.
C19_DragAndCursorFollowRegion ==
    /\ [](window.resize # "unreachable")
    /\ [][(wpc = "dispatch" /\ wpc' # "dispatch" /\ event.type = "MouseDown")
             => window'.resize = IF Hit \in EdgeRegions THEN Direction[Hit]
                                 ELSE window.resize]_vars
    /\ [][(wpc = "dispatch" /\ wpc' # "dispatch" /\ event.type = "MouseMove")
             => window'.cursor = IF Hit \in EdgeRegions THEN Icon[Hit]
                                 ELSE "Default"]_vars
    /\ [][(wpc = "dispatch" /\ wpc' # "dispatch" /\ event.type # "MouseDown")
             => window'.resize = window.resize]_vars

\* A mouse-down on the left edge has started a drag-resize to the west.
C19_Witness ==
    /\ wpc = "poll"
    /\ posted = 1
    /\ window.resize = "West"

\* C20: every SizeReturned on the Event Queue carries the window's size in
\* logical units: its width and height times the scale factor are the
\* physical inner size.
C20_SizeReportIsLogical ==
    \A i \in 1..Len(events) :
        events[i].type = "SizeReturned"
           => /\ events[i].w * window.scale_factor = window.inner_size[1] * 100
              /\ events[i].h * window.scale_factor = window.inner_size[2] * 100
\* The template with each placeholder replaced by its value in one pass: text
\* put in for a placeholder is not searched again.
RECURSIVE Substituted(_, _, _)
Substituted(s, title, body) ==
    IF s = <<>> THEN <<>>
    ELSE IF StartsWith(s, S_REPLACETITLE)
    THEN title \o Substituted(SubSeq(s, Len(S_REPLACETITLE) + 1, Len(s)), title, body)
    ELSE IF StartsWith(s, S_REPLACEBODY)
    THEN body \o Substituted(SubSeq(s, Len(S_REPLACEBODY) + 1, Len(s)), title, body)
    ELSE <<Head(s)>> \o Substituted(Tail(s), title, body)

\* s holds m as a contiguous piece.
Contains(s, m) == \E i \in 0..(Len(s) - Len(m)) : SubSeq(s, i + 1, i + Len(m)) = m

\* C21: when the window thread processes ReplaceHtml(m), the content loaded
\* into the webview is the template with its title placeholder replaced by the
\* configured title and its body placeholder replaced by m, and holds m
\* verbatim, whatever placeholder text the title or m hold themselves.
C21_ReplaceHtmlRoundTrip ==
    [][(/\ wpc = "poll"
        /\ wpc' = "dispatch"
        /\ commands # <<>>
        /\ Head(commands).type = "ReplaceHtml") =>
          /\ window'.html = Substituted(HTML_HEADER, options.title, Head(commands).html)
          /\ Contains(window'.html, Head(commands).html)]_vars

\* C22: a try_read that dequeues an IpcMessage returns one string and removes
\* that one event from the Event Queue; the string is the message's text when
\* the message holds no NUL byte, and otherwise a replacement that is no prefix
\* of the message (not the text up to the NUL byte, not the empty text); the
\* call does not panic.
C22_ReadTextIsWholeOrReplaced ==
    [][(/\ \E stack \in CallStacks.try_read : try_read(stack)
        /\ events # <<>>
        /\ Head(events).type = "IpcMessage") =>
          LET body == Head(events).body
          IN  /\ events' = Tail(events)
              /\ hpc' = "idle"
              /\ lastCall'.result.rets = 1
              /\ lastCall'.result.kind = "string"
              /\ NulPos(body) = 0 => lastCall'.result.text = Str(body)
              /\ NulPos(body) # 0 => lastCall'.result.text
                                       \notin {Str(SubSeq(body, 1, k)) : k \in 0..Len(body)}]_vars

\* try_read has handed over the replacement for a message with a NUL byte in
\* its middle.
C22_Witness ==
    /\ lastCall.op = "try_read"
    /\ lastCall.got = "IpcMessage"
    /\ handed # <<>>
    /\ handed[Len(handed)].body = <<"a", NUL, "b">>
    /\ lastCall.result.text =
          "WebviewIpc:try_read(new_html: string): IPC message contains NUL byte at 1"

\* C23: with a window thread that keeps taking its steps, or ends and drops
\* its channel ends, every size() call blocked in recv eventually returns, a
\* size or an error; and the call does wait on the window thread: while the
\* Event Queue is empty and its sender alive, recv cannot return.
C23_SizeEventuallyReturns ==
    /\ [](hpc = "size_recv" => (ENABLED size_recv <=> (events # <<>> \/ WindowEndsDropped)))
    /\ (hpc = "size_recv")
          ~> (/\ hpc = "idle"
              /\ lastCall.op = "size"
              /\ lastCall.result.kind \in {"vector", "error"})

\* A size() call has blocked until the window thread ended and dropped its
\* sender, and has returned the disconnection.
C23_Witness ==
    /\ hpc = "idle"
    /\ lastCall.op = "size"
    /\ wpc = "terminated"
    /\ lastCall.result = WrappedError("WebviewIpc:size: unable to recv due to err: "
                                      \o RecvErrorText)

\* One invocation of the loop closure begins: its command poll.
Polls == wpc = "poll" /\ wpc' = "dispatch"

\* C24: an invocation of the loop closure takes exactly the oldest command
\* when the Command Queue is not empty at its poll, and none when it is;
\* nothing but the command poll takes a command, and no step takes two, so k
\* waiting commands take k invocations.
C24_OneCommandPerIteration ==
    /\ [][Polls => commands' = IF commands = <<>> THEN <<>> ELSE Tail(commands)]_vars
    /\ [][Len(commands') < Len(commands)
             => (Polls /\ Len(commands') = Len(commands) - 1)]_vars

\* An invocation has polled SetAlert(true) and is at its match event with
\* another command still waiting for the next invocation.
C24_Witness ==
    /\ wpc = "dispatch"
    /\ commands # <<>>
    /\ window.attention = "Critical"
    /\ lastCall.op \in {"replace_html", "close", "size"}

\* The host's latest call was op, it was sent, and every command sent so far
\* has been polled.
LatestProcessed(op) ==
    /\ lastCall.op = op
    /\ lastCall.chan
    /\ lastCall.result = Nothing
    /\ commands = <<>>

\* C25: commands are applied in the order the host enqueued them: a send puts
\* its command behind those waiting and the command poll takes the oldest; so
\* once every command has been polled the webview shows the markup of the
\* latest replace_html and nothing of an earlier one, and the attention
\* request is as the latest alert set it.
C25_CommandsAppliedInOrder ==
    /\ []((LatestProcessed("replace_html") /\ window.built)
             => /\ Contains(window.html, lastCall.args[2].str)
                /\ \A m \in {<<"a">>, <<"b">>} \ {lastCall.args[2].str} :
                      ~Contains(window.html, m))
    /\ []((LatestProcessed("alert") /\ window.built)
             => window.attention = IF lastCall.args[2].bool THEN "Critical" ELSE "None")
    /\ [][Len(commands') > Len(commands)
             => SubSeq(commands', 1, Len(commands)) = commands]_vars
    /\ [][Len(commands') < Len(commands) => commands' = Tail(commands)]_vars

\* replace_html(a) and replace_html(b) were called in that order: the webview
\* shows a while b waits in the Command Queue.
C25_Witness ==
    /\ lastCall.op = "replace_html"
    /\ lastCall.args[2].str = <<"b">>
    /\ lastCall.result = Nothing
    /\ commands = <<ReplaceHtml(<<"b">>)>>
    /\ Contains(window.html, <<"a">>)
    /\ wpc = "dispatch"

\* The window thread is past its running state: the loop has been told to
\* end, or spawn has returned.
LeftRunning == wpc \in {"exiting", "terminated"}

\* C26: with a window thread that keeps taking its steps, a close() whose send
\* succeeded leads to the window thread leaving its running state; the
\* invocation that polls Close sets the flag to Exit, its match event leaves
\* the flag at Exit and ends the loop, and once the window thread has left the
\* running state it never runs again.
C26_CloseEventuallyTerminates ==
    /\ (lastCall.op = "close" /\ lastCall.result = Nothing) ~> LeftRunning
    /\ [][(Polls /\ commands # <<>> /\ Head(commands).type = "Close")
             => control_flow' = "Exit"]_vars
    /\ [][(wpc = "dispatch" /\ control_flow = "Exit" /\ wpc' # wpc)
             => (control_flow' = "Exit" /\ wpc' = "exiting")]_vars
    /\ [][LeftRunning => LeftRunning']_vars

\* The loop has ended for a Close command polled after an alert: no close
\* event was handled.
C26_Witness ==
    /\ wpc = "terminated"
    /\ window.built
    /\ ~WindowClosedEmitted
    /\ lastCall.op = "close"
    /\ lastCall.result = Nothing
    /\ commands = <<>>
    /\ window.attention = "Critical"

\* C27: within one invocation of the loop closure the polled command is
\* handled before the native event.  An invocation for a close event that
\* polls SizeRequested enqueues SizeReturned at its poll, with no WindowClosed
\* on the Event Queue yet, and WindowClosed at its match event; a host blocked
\* in size() with both on the Event Queue receives SizeReturned and leaves
\* WindowClosed for a later try_read; and an invocation for a content message
\* that polls Close still enqueues the IpcMessage before the loop ends.
C27_CommandBeforeNativeEvent ==
    /\ [][(/\ Polls
           /\ commands # <<>>
           /\ Head(commands).type = "SizeRequested"
           /\ event'.type \in {"CloseRequested", "CloseWindow"})
             => /\ events' = Append(events, SizeReturned(window.inner_size[1],
                                                         window.inner_size[2]))
                /\ \A i \in 1..Len(events) : events[i].type # "WindowClosed"]_vars
    /\ [][(wpc = "dispatch" /\ wpc' # wpc /\ event.type \in {"CloseRequested", "CloseWindow"})
             => events' = Append(events, WindowClosed)]_vars
    /\ [][(/\ hpc = "size_recv"
           /\ hpc' = "idle"
           /\ \E i \in 1..Len(events) : events[i].type = "SizeReturned"
           /\ events[Len(events)].type = "WindowClosed")
             => /\ lastCall'.result.kind = "vector"
                /\ events'[Len(events')].type = "WindowClosed"]_vars
    /\ [][(/\ wpc = "dispatch"
           /\ wpc' # wpc
           /\ control_flow = "Exit"
           /\ event.type = "SendIpc")
             => /\ events' = Append(events, IpcMessage(event.body))
                /\ wpc' = "exiting"]_vars

====
